---------------------------- MODULE Spec2Model ----------------------------
(***************************************************************************)
(* A model of the inventory cache of politeiawww (inventory.go): the keyed *)
(* store token -> *inventoryRecord, the six status counters, the per-user  *)
(* proposal counts, and the operations that insert, update, annotate, read *)
(* and list the records.                                                   *)
(*                                                                         *)
(* Tokens are strings in the program; they are modelled by the naturals    *)
(* 1..n, ordered as the strings are, and 0 stands for the empty string.    *)
(* The comments map of an inventoryRecord is a Go map, a reference: it is  *)
(* modelled as an address into commentMaps, so that a struct copy shares   *)
(* it.  Which fresh address make() hands out cannot be observed, nor can a *)
(* map that nothing refers to any more: a map made for the token t gets    *)
(* the first free address <<t, n>>, and the maps that neither an entry nor *)
(* a caller's copy refers to are collected when the store is replaced.     *)
(* commentsLikes is only ever replaced as a whole and changes is only      *)
(* appended to, so a struct copy of them behaves as a value.               *)
(***************************************************************************)
EXTENDS Integers, Sequences, FiniteSets, TLC

VARIABLES
    inventory,              \* b.inventory: token -> inventoryRecord
    numOfInvalid,           \* b.numOfInvalid
    numOfCensored,          \* b.numOfCensored
    numOfUnvetted,          \* b.numOfUnvetted
    numOfUnvettedChanges,   \* b.numOfUnvettedChanges
    numOfPublic,            \* b.numOfPublic
    numOfAbandoned,         \* b.numOfAbandoned
    numOfPropsByUserID,     \* b.numOfPropsByUserID: user id -> count
    commentMaps,            \* the heap of comments maps: address -> (id -> comment)
    op,                     \* the last call: its name, token and the status it found
    err,                    \* the error the last call returned
    got,                    \* the inventoryRecord the last getInventoryRecord returned
    pr,                     \* the proposalsRequest of the last getProposals
    proposals,              \* the tokens getProposals returned, in order
    ps,                     \* the proposalsStats the last stats call returned
    mu,                     \* b.RWMutex: its writer and its readers
    proc                    \* the threads: where each is in its call, with its locals

vars == <<inventory, numOfInvalid, numOfCensored, numOfUnvetted,
          numOfUnvettedChanges, numOfPublic, numOfAbandoned,
          numOfPropsByUserID, commentMaps, op, err, got, pr, proposals,
          ps, mu, proc>>

-----------------------------------------------------------------------------
(* Bounds *)

MaxToken == 2

MaxListToken == 3

MaxTimestamp == 2

MaxChanges == 2

MaxCreated == 3

\* www.ProposalListPageSize, scaled down to the size of the model.
ProposalListPageSize == 1

-----------------------------------------------------------------------------
(* Values *)

Tokens == 1..MaxToken

Nil == "nil"

ErrDuplicate == "duplicate token"

ErrNotFound == "inventory record not found"

ErrUser == "User not found"

Panic == "panic: invalid memory address or nil pointer dereference"

ErrDecode == "decode"

\* pd.RecordStatusT
RecordStatuses ==
    {"invalid", "notfound", "notreviewed", "censored", "public",
     "unreviewedchanges", "archived"}

\* b.userPubkeys: public key -> user id
userPubkeys == [pk \in {"pk1", "pk2"} |-> IF pk = "pk1" THEN "u1" ELSE "u2"]

Users == {"u1", "u2"}

\* The zero value of BackendProposalMetadata.
NoPropMD == [PublicKey |-> ""]

Empty == [x \in {} |-> x]

NoOp == [name |-> "none", token |-> 0, old |-> "none"]

NoRecord == [ok |-> FALSE]

\* The zero proposalsStats.
NoStats ==
    [NumOfInvalid |-> 0, NumOfCensored |-> 0, NumOfUnvetted |-> 0,
     NumOfUnvettedChanges |-> 0, NumOfPublic |-> 0, NumOfAbandoned |-> 0]

\* The threads that call into the cache at the same time.
Threads == {"w1", "w2", "rd"}

\* A thread that is in no call.
Idle == [pc |-> "idle"]

\* The RWMutex nobody holds.
Unlocked == [writer |-> "none", readers |-> {}]

NoRequest == [After |-> 0, Before |-> 0, UserId |-> "", StateMap |-> Empty]

-----------------------------------------------------------------------------
(* Records and their metadata streams.  A payload is the sequence of JSON  *)
(* documents of the stream; a document is well formed (ok) or not.         *)

Doc(v) == [ok |-> TRUE, v |-> v]

BadDoc == [ok |-> FALSE, v |-> ""]

Stream(id, payload) == [ID |-> id, Payload |-> payload]

General(pk) == Stream("general", <<Doc(pk)>>)

\* A www.Comment with no votes counted yet.
Comment(t, id, text) ==
    [Token |-> t, CommentID |-> id, Comment |-> text, upVotes |-> 0, downVotes |-> 0]

\* A www.LikeComment: action is 1 (like) or -1 (dislike).
LikeComment(t, id, pk, action, ts) ==
    [Token |-> t, CommentID |-> id, PublicKey |-> pk, Action |-> action,
     Timestamp |-> ts]

Record(t, status, ts, md) ==
    [Status |-> status, Timestamp |-> ts,
     CensorshipRecord |-> [Token |-> t], Metadata |-> md]

\* json.Decoder.Decode on what is left of a payload.
Decode(payload) ==
    IF payload = <<>> THEN [err |-> "EOF", v |-> ""]
    ELSE IF ~Head(payload).ok THEN [err |-> ErrDecode, v |-> ""]
    ELSE [err |-> Nil, v |-> Head(payload).v]

-----------------------------------------------------------------------------
(* The backend as a value, for the operations written as functions of it.  *)

Backend ==
    [inventory |-> inventory,
     numOfInvalid |-> numOfInvalid,
     numOfCensored |-> numOfCensored,
     numOfUnvetted |-> numOfUnvetted,
     numOfUnvettedChanges |-> numOfUnvettedChanges,
     numOfPublic |-> numOfPublic,
     numOfAbandoned |-> numOfAbandoned,
     numOfPropsByUserID |-> numOfPropsByUserID,
     commentMaps |-> commentMaps,
     held |-> IF got.ok THEN {got.ir.comments} ELSE {}]

EmptyBackend ==
    [inventory |-> Empty,
     numOfInvalid |-> 0,
     numOfCensored |-> 0,
     numOfUnvetted |-> 0,
     numOfUnvettedChanges |-> 0,
     numOfPublic |-> 0,
     numOfAbandoned |-> 0,
     numOfPropsByUserID |-> [u \in Users |-> 0],
     commentMaps |-> Empty,
     held |-> {}]

Store(b) ==
    /\ inventory' = b.inventory
    /\ numOfInvalid' = b.numOfInvalid
    /\ numOfCensored' = b.numOfCensored
    /\ numOfUnvetted' = b.numOfUnvetted
    /\ numOfUnvettedChanges' = b.numOfUnvettedChanges
    /\ numOfPublic' = b.numOfPublic
    /\ numOfAbandoned' = b.numOfAbandoned
    /\ numOfPropsByUserID' = b.numOfPropsByUserID
    /\ commentMaps' = b.commentMaps

Ret(b, e) == [b |-> b, err |-> e]

\* The address of a map made for the token t: the first one not in use.
NewAddress(b, t) ==
    LET used == {a[2] : a \in {x \in DOMAIN b.commentMaps : x[1] = t}}
    IN  <<t, CHOOSE n \in 1..(Cardinality(used) + 1) :
                /\ n \notin used
                /\ \A m \in 1..(n - 1) : m \in used>>

\* The heap without the maps that no entry and no caller's copy refers to.
Collect(b) ==
    LET live == {b.inventory[t].comments : t \in DOMAIN b.inventory} \cup b.held
    IN  [b EXCEPT !.commentMaps = [a \in DOMAIN @ \cap live |-> @[a]]]

\* The entries made so far: no counter is ever reset.
Created(b) ==
    b.numOfInvalid + b.numOfCensored + b.numOfUnvetted
        + b.numOfUnvettedChanges + b.numOfPublic + b.numOfAbandoned

\* make(map[string]www.Comment) at the address a.
MakeMap(b, a) ==
    [b EXCEPT !.commentMaps =
        [k \in DOMAIN b.commentMaps \cup {a} |->
            IF k = a THEN Empty ELSE b.commentMaps[k]]]

\* The store replaced by one that holds ir alone.
PutRecordAlone(b, t, ir) ==
    [b EXCEPT !.inventory = [k \in {t} |-> ir]]

\* b.inventory[t] = ir
PutRecord(b, t, ir) ==
    [b EXCEPT !.inventory =
        [k \in DOMAIN b.inventory \cup {t} |-> IF k = t THEN ir ELSE b.inventory[k]]]

-----------------------------------------------------------------------------
(* Status counters *)

convertPropStatusFromPD(s) ==
    CASE s = "notfound" -> "PropStatusNotFound"
      [] s = "notreviewed" -> "PropStatusNotReviewed"
      [] s = "censored" -> "PropStatusCensored"
      [] s = "public" -> "PropStatusPublic"
      [] s = "unreviewedchanges" -> "PropStatusUnreviewedChanges"
      [] s = "archived" -> "PropStatusAbandoned"
      [] OTHER -> "PropStatusInvalid"

executeUpdate(b, v, status) ==
    CASE status = "PropStatusUnreviewedChanges" ->
            [b EXCEPT !.numOfUnvettedChanges = @ + v]
      [] status = "PropStatusNotReviewed" ->
            [b EXCEPT !.numOfUnvetted = @ + v]
      [] status = "PropStatusCensored" ->
            [b EXCEPT !.numOfCensored = @ + v]
      [] status = "PropStatusPublic" ->
            [b EXCEPT !.numOfPublic = @ + v]
      [] status = "PropStatusAbandoned" ->
            [b EXCEPT !.numOfAbandoned = @ + v]
      [] OTHER ->
            [b EXCEPT !.numOfInvalid = @ + v]

\* The count of the old status is not decreased.
CountWithoutDecrease(b, status, oldStatus) ==
    executeUpdate(b, 1, convertPropStatusFromPD(status))

\* oldStatus is "none" for the nil pointer.
_updateInventoryCountOfPropStatus(b, status, oldStatus) ==
    LET b1 == IF oldStatus # "none"
              THEN executeUpdate(b, -1, convertPropStatusFromPD(oldStatus))
              ELSE b
    IN  executeUpdate(b1, 1, convertPropStatusFromPD(status))

_updateCountOfUserProposals(b, token) ==
    IF token \notin DOMAIN b.inventory THEN Ret(b, ErrNotFound)
    ELSE LET pk == b.inventory[token].proposalMD.PublicKey IN
         IF pk \notin DOMAIN userPubkeys THEN Ret(b, ErrUser)
         ELSE Ret([b EXCEPT !.numOfPropsByUserID[userPubkeys[pk]] = @ + 1], Nil)

-----------------------------------------------------------------------------
(* Metadata streams *)

\* b.inventory[token] of a token that is not in the map is the nil pointer,
\* and a write through it ends the call in a run-time panic.
loadPropMD(b, token, payload) ==
    LET d == Decode(payload) IN
    IF d.err = "EOF" THEN Ret(b, Nil)
    ELSE IF d.err # Nil THEN Ret(b, d.err)
    ELSE IF token \notin DOMAIN b.inventory THEN Ret(b, Panic)
    ELSE Ret([b EXCEPT !.inventory[token].proposalMD = [PublicKey |-> d.v]], Nil)

RECURSIVE loadChanges(_, _, _)
loadChanges(b, token, payload) ==
    LET d == Decode(payload) IN
    IF d.err = "EOF" THEN Ret(b, Nil)
    ELSE IF d.err # Nil THEN Ret(b, d.err)
    ELSE IF token \notin DOMAIN b.inventory THEN Ret(b, Panic)
    ELSE loadChanges([b EXCEPT !.inventory[token].changes = Append(@, d.v)],
                     token, Tail(payload))

loadVoteAuthorization(b, token, payload) ==
    LET d == Decode(payload) IN
    IF d.err = "EOF" THEN Ret(b, Nil)
    ELSE IF d.err # Nil THEN Ret(b, d.err)
    ELSE IF token \notin DOMAIN b.inventory THEN Ret(b, Panic)
    ELSE Ret([b EXCEPT !.inventory[token].voteAuthorization = d.v], Nil)

loadVoting(b, token, payload) ==
    LET d == Decode(payload) IN
    IF d.err = "EOF" THEN Ret(b, Nil)
    ELSE IF d.err # Nil THEN Ret(b, d.err)
    ELSE IF token \notin DOMAIN b.inventory THEN Ret(b, Panic)
    ELSE Ret([b EXCEPT !.inventory[token].voting = d.v], Nil)

loadVoteBits(b, token, payload) ==
    LET d == Decode(payload) IN
    IF d.err = "EOF" THEN Ret(b, Nil)
    ELSE IF d.err # Nil THEN Ret(b, d.err)
    ELSE IF token \notin DOMAIN b.inventory THEN Ret(b, Panic)
    ELSE Ret([b EXCEPT !.inventory[token].votebits = d.v], Nil)

\* One turn of the loop of loadRecordMetadata: the stream m of token t.
\* The error of a loader is logged and the loop continues.
loadStream(b, t, m) ==
    CASE m.ID = "general" -> loadPropMD(b, t, m.Payload)
      [] m.ID = "changes" -> loadChanges(b, t, m.Payload)
      [] m.ID = "authorizevote" -> loadVoteAuthorization(b, t, m.Payload)
      [] m.ID = "votebits" -> loadVoteBits(b, t, m.Payload)
      [] m.ID = "votesnapshot" -> loadVoting(b, t, m.Payload)
      [] OTHER -> Ret(b, Nil)

\* The loop that ends at the first stream whose loader returns an error.
RECURSIVE LoadStreamsUntilError(_, _, _)
LoadStreamsUntilError(b, t, ms) ==
    IF ms = <<>> THEN Ret(b, Nil)
    ELSE LET r == loadStream(b, t, Head(ms)) IN
         IF r.err # Nil THEN Ret(r.b, Nil)
         ELSE LoadStreamsUntilError(r.b, t, Tail(ms))

\* The loop over v.Metadata: it ends at the last stream or in a panic.
RECURSIVE loadStreams(_, _, _)
loadStreams(b, t, ms) ==
    IF ms = <<>> THEN Ret(b, Nil)
    ELSE LET r == loadStream(b, t, Head(ms)) IN
         IF r.err = Panic THEN r
         ELSE loadStreams(r.b, t, Tail(ms))

\* The function returns nothing: err is Nil when it returns.
loadRecordMetadata(b, v) == loadStreams(b, v.CensorshipRecord.Token, v.Metadata)

-----------------------------------------------------------------------------
(* Insert, update and the setters, as functions of the backend *)

\* &inventoryRecord{record: record, comments: make(map[string]www.Comment)}
NewEntry(record, addr) ==
    [record |-> record,
     proposalMD |-> NoPropMD,
     comments |-> addr,
     commentsLikes |-> Empty,
     changes |-> <<>>,
     voteAuthorization |-> "",
     votebits |-> "",
     voting |-> ""]

\* The insert without its duplicate check: the entry is overwritten.
NewWithoutDuplicateCheck(b, record) ==
    LET t == record.CensorshipRecord.Token
        addr == NewAddress(b, t)
        b1 == PutRecord(MakeMap(b, addr), t, NewEntry(record, addr))
        b2 == loadRecordMetadata(b1, record).b
        b3 == _updateInventoryCountOfPropStatus(b2, record.Status, "none")
    IN  _updateCountOfUserProposals(b3, t)

_newInventoryRecord(b, record) ==
    LET t == record.CensorshipRecord.Token IN
    IF t \in DOMAIN b.inventory THEN Ret(b, ErrDuplicate)
    ELSE
        LET addr == NewAddress(b, t)
            b1 == PutRecord(MakeMap(b, addr), t, NewEntry(record, addr))
            b2 == loadRecordMetadata(b1, record).b
            b3 == _updateInventoryCountOfPropStatus(b2, record.Status, "none")
        IN  _updateCountOfUserProposals(b3, t)

\* The update that counts after it has replaced the record.
UpdateCountingAfterReplace(b, record) ==
    LET t == record.CensorshipRecord.Token IN
    IF t \notin DOMAIN b.inventory THEN Ret(b, ErrNotFound)
    ELSE
        LET ir == b.inventory[t]
            b1 == PutRecord(b, t, [ir EXCEPT !.record = record])
            b2 == _updateInventoryCountOfPropStatus(
                      b1, record.Status, b1.inventory[t].record.Status)
        IN  Ret(loadRecordMetadata(b2, record).b, Nil)

_updateInventoryRecord(b, record) ==
    LET t == record.CensorshipRecord.Token IN
    IF t \notin DOMAIN b.inventory THEN Ret(b, ErrNotFound)
    ELSE
        LET ir == b.inventory[t]
            b1 == _updateInventoryCountOfPropStatus(b, record.Status, ir.record.Status)
            b2 == PutRecord(b1, t, [ir EXCEPT !.record = record])
        IN  Ret(loadRecordMetadata(b2, record).b, Nil)

\* A www.Comment is [Token, CommentID, Comment, upVotes, downVotes].
_setRecordComment(b, comment) ==
    IF comment.Token \notin DOMAIN b.inventory THEN Ret(b, ErrNotFound)
    ELSE
        LET a == b.inventory[comment.Token].comments
            m == b.commentMaps[a]
        IN  Ret([b EXCEPT !.commentMaps[a] =
                    [k \in DOMAIN m \cup {comment.CommentID} |->
                        IF k = comment.CommentID THEN comment ELSE m[k]]],
                Nil)

_setRecordVoting(b, token, sv, svr) ==
    IF token \notin DOMAIN b.inventory THEN Ret(b, ErrNotFound)
    ELSE
        LET ir == b.inventory[token] IN
        Ret(PutRecord(b, token, [ir EXCEPT !.voting = svr, !.votebits = sv]), Nil)

\* The setter whose sanity check returns no error.
SetAuthorizationSilently(b, token, avr) ==
    IF token \notin DOMAIN b.inventory THEN Ret(b, Nil)
    ELSE Ret([b EXCEPT !.inventory[token].voteAuthorization = avr], Nil)

_setRecordVoteAuthorization(b, token, avr) ==
    IF token \notin DOMAIN b.inventory THEN Ret(b, ErrNotFound)
    ELSE Ret([b EXCEPT !.inventory[token].voteAuthorization = avr], Nil)

\* return *r: a copy of the struct, its comments field the same map.
_getInventoryRecord(b, token) ==
    IF token \notin DOMAIN b.inventory
    THEN [r |-> NoRecord, err |-> ErrNotFound]
    ELSE [r |-> [ok |-> TRUE, ir |-> b.inventory[token]], err |-> Nil]

-----------------------------------------------------------------------------
(* Comments, comment likes and their tally.  A plugin call x is          *)
(* [challenge, err, Response, ok, v]: the challenge util.Random drew, the  *)
(* error of makeRequest or of json.Unmarshal (Nil for none), the reply's   *)
(* Response, whether the reply's Payload decodes, and what it decodes to.  *)

\* util.VerifyChallenge: the response is a proof over this challenge.
VerifyChallenge(challenge, response) == response = challenge

_convertDecredCommentToWWWComment(v) == Comment(v.Token, v.CommentID, v.Comment)

convertDecredLikeCommentToWWWLikeComment(v) == v

\* The loop "Fill map" of loadComments over the comments cs.
RECURSIVE FillComments(_, _, _)
FillComments(b, t, cs) ==
    IF cs = <<>> THEN b
    ELSE
        LET c == _convertDecredCommentToWWWComment(Head(cs))
            a == b.inventory[t].comments
            m == b.commentMaps[a]
        IN  FillComments(
                [b EXCEPT !.commentMaps[a] =
                    [k \in DOMAIN m \cup {c.CommentID} |->
                        IF k = c.CommentID THEN c ELSE m[k]]],
                t, Tail(cs))

loadComments(b, t, x) ==
    IF x.err # Nil THEN Ret(b, x.err)
    ELSE IF ~VerifyChallenge(x.challenge, x.Response) THEN Ret(b, "challenge")
    ELSE IF ~x.ok THEN Ret(b, ErrDecode)
    ELSE Ret(FillComments(b, t, x.v), Nil)

\* The loop of _loadCommentsLikes over the likes ls, into the map m.
RECURSIVE FillLikes(_, _)
FillLikes(m, ls) ==
    IF ls = <<>> THEN m
    ELSE
        LET lc == convertDecredLikeCommentToWWWLikeComment(Head(ls))
            cls == IF lc.CommentID \in DOMAIN m THEN m[lc.CommentID] ELSE <<>>
        IN  FillLikes([k \in DOMAIN m \cup {lc.CommentID} |->
                          IF k = lc.CommentID THEN Append(cls, lc) ELSE m[k]],
                      Tail(ls))

\* The likes stored before the challenge is verified.
LoadLikesUnverified(b, token, x) ==
    IF x.err # Nil THEN Ret(b, x.err)
    ELSE IF ~x.ok THEN Ret(b, ErrDecode)
    ELSE LET b1 == [b EXCEPT !.inventory[token].commentsLikes = FillLikes(Empty, x.v)] IN
         IF ~VerifyChallenge(x.challenge, x.Response) THEN Ret(b1, "challenge")
         ELSE Ret(b1, Nil)

_loadCommentsLikes(b, token, x) ==
    IF x.err # Nil THEN Ret(b, x.err)
    ELSE IF ~VerifyChallenge(x.challenge, x.Response) THEN Ret(b, "challenge")
    ELSE IF ~x.ok THEN Ret(b, ErrDecode)
    ELSE Ret([b EXCEPT !.inventory[token].commentsLikes = FillLikes(Empty, x.v)], Nil)

\* The resultant action of the user pk among the likes ls: that of the
\* user's latest like by timestamp, the later in ls among equal timestamps.
ResultantAction(ls, pk) ==
    LET mine == {i \in DOMAIN ls : ls[i].PublicKey = pk}
        last == CHOOSE i \in mine :
                    \A j \in mine :
                        \/ ls[j].Timestamp < ls[i].Timestamp
                        \/ (ls[j].Timestamp = ls[i].Timestamp /\ j <= i)
    IN  ls[last].Action

\* The tally that adds the action of the like to the totals of its comment.
UpdateResultsAccumulating(b, l) ==
    LET a == b.inventory[l.Token].comments IN
    IF l.CommentID \notin DOMAIN b.commentMaps[a] THEN Ret(b, "comment not found")
    ELSE Ret([b EXCEPT
                !.commentMaps[a][l.CommentID].upVotes =
                    IF l.Action = 1 THEN @ + 1 ELSE @,
                !.commentMaps[a][l.CommentID].downVotes =
                    IF l.Action = -1 THEN @ + 1 ELSE @],
             Nil)

\* The comment of the like l gets the up and down totals of its likes.
_updateResultsForCommentLike(b, l) ==
    LET ir == b.inventory[l.Token]
        a == ir.comments
        ls == ir.commentsLikes[l.CommentID]
        pks == {ls[i].PublicKey : i \in DOMAIN ls}
    IN
    IF l.CommentID \notin DOMAIN b.commentMaps[a] THEN Ret(b, "comment not found")
    ELSE Ret([b EXCEPT
                !.commentMaps[a][l.CommentID].upVotes =
                    Cardinality({pk \in pks : ResultantAction(ls, pk) = 1}),
                !.commentMaps[a][l.CommentID].downVotes =
                    Cardinality({pk \in pks : ResultantAction(ls, pk) = -1})],
             Nil)

\* The inner loop of _processCommentsLikesResults over the likes ls.
RECURSIVE ProcessLikes(_, _)
ProcessLikes(b, ls) ==
    IF ls = <<>> THEN Ret(b, Nil)
    ELSE
        LET r == _updateResultsForCommentLike(b, Head(ls)) IN
        IF r.err # Nil THEN Ret(b, r.err) ELSE ProcessLikes(r.b, Tail(ls))

\* The outer loop that returns after the first comment id.
ProcessFirstComment(b, token, ids) ==
    IF ids = <<>> THEN Ret(b, Nil)
    ELSE ProcessLikes(b, b.inventory[token].commentsLikes[Head(ids)])

\* The outer loop, over the comment ids in the order ids.
RECURSIVE ProcessComments(_, _, _)
ProcessComments(b, token, ids) ==
    IF ids = <<>> THEN Ret(b, Nil)
    ELSE
        LET r == ProcessLikes(b, b.inventory[token].commentsLikes[Head(ids)]) IN
        IF r.err # Nil THEN r ELSE ProcessComments(r.b, token, Tail(ids))

\* The sequences that list each element of the set S once.
Orders(S) ==
    {f \in [1..Cardinality(S) -> S] : \A i, j \in DOMAIN f : f[i] = f[j] => i = j}

\* ids is the order in which the range loop visits the map commentsLikes.
_processCommentsLikesResults(b, token, ids) ==
    IF token \notin DOMAIN b.inventory THEN Ret(b, ErrNotFound)
    ELSE ProcessComments(b, token, ids)

\* net is [comments, likes, ids]: the two plugin calls of the record and the
\* order in which the tally visits its comment ids.
loadRecord(b, record, net) ==
    LET t == record.CensorshipRecord.Token
        b1 == loadRecordMetadata(b, record).b
        r2 == loadComments(b1, t, net.comments)
    IN
    IF r2.err # Nil THEN r2
    ELSE
        LET r3 == _loadCommentsLikes(r2.b, t, net.likes) IN
        IF r3.err # Nil THEN r3
        ELSE _processCommentsLikesResults(r3.b, t, net.ids)

\* The loop of initializeInventory over the records vs, nets[i] the plugin
\* calls of the i-th of them.
RECURSIVE InitializeRecords(_, _, _)
InitializeRecords(b, vs, nets) ==
    IF vs = <<>> THEN Ret(b, Nil)
    ELSE
        LET r1 == _newInventoryRecord(b, Head(vs)) IN
        IF r1.err # Nil THEN r1
        ELSE
            LET r2 == loadRecord(r1.b, Head(vs), Head(nets)) IN
            IF r2.err # Nil THEN r2
            ELSE InitializeRecords(r2.b, Tail(vs), Tail(nets))

initializeInventory(b, inv, nets) ==
    InitializeRecords(Collect([b EXCEPT !.inventory = Empty]),
                      inv.Vetted \o inv.Branches, nets)

-----------------------------------------------------------------------------
(* The proposals of the inventory and their pages *)

convertPropStatusToState(status) ==
    CASE status \in {"PropStatusNotReviewed", "PropStatusUnreviewedChanges",
                     "PropStatusCensored"} -> "unvetted"
      [] status \in {"PropStatusPublic", "PropStatusAbandoned"} -> "vetted"
      [] OTHER -> "invalid"

\* The www.ProposalRecord of an inventoryRecord, NumComments left at zero.
_convertPropFromInventoryRecord(b, ir) ==
    [CensorshipRecord |-> ir.record.CensorshipRecord,
     Timestamp |-> ir.record.Timestamp,
     Status |-> convertPropStatusFromPD(ir.record.Status),
     State |-> convertPropStatusToState(convertPropStatusFromPD(ir.record.Status)),
     PublicKey |-> ir.proposalMD.PublicKey,
     UserId |-> "",
     NumComments |-> 0]

\* One turn of the loop of _getAllProposals: the proposal of the token t.
ProposalOf(b, t) ==
    LET vv == b.inventory[t]
        v == _convertPropFromInventoryRecord(b, vv)
    IN  [v EXCEPT !.NumComments = Cardinality(DOMAIN b.commentMaps[vv.comments]),
                  !.UserId = IF v.PublicKey \in DOMAIN userPubkeys
                             THEN userPubkeys[v.PublicKey] ELSE ""]

\* order is the order in which the range loop visits the map b.inventory.
_getAllProposals(b, order) == [i \in DOMAIN order |-> ProposalOf(b, order[i])]

\* The comparison with the tokens of equal timestamps the other way round.
lessTokenAscending(p, q) ==
    IF p.Timestamp # q.Timestamp
    THEN p.Timestamp < q.Timestamp
    ELSE p.CensorshipRecord.Token < q.CensorshipRecord.Token

\* The less function getProposals gives sort.Slice.
less(p, q) ==
    IF p.Timestamp # q.Timestamp
    THEN p.Timestamp < q.Timestamp
    ELSE p.CensorshipRecord.Token > q.CensorshipRecord.Token

\* The sorted sequence sorted with p inserted at its place.
RECURSIVE InsertSorted(_, _)
InsertSorted(sorted, p) ==
    IF sorted = <<>> THEN <<p>>
    ELSE IF less(p, sorted[Len(sorted)])
         THEN Append(InsertSorted(SubSeq(sorted, 1, Len(sorted) - 1), p),
                     sorted[Len(sorted)])
         ELSE Append(sorted, p)

\* sort.Slice: the insertion sort it runs on a short slice.
RECURSIVE SortSlice(_)
SortSlice(all) ==
    IF all = <<>> THEN <<>>
    ELSE InsertSorted(SortSlice(SubSeq(all, 1, Len(all) - 1)), all[Len(all)])

\* The two filters of the loops of getProposals: p is skipped.
Filtered(request, p) ==
    \/ request.UserId # "" /\ request.UserId # p.UserId
    \/ ~(p.State \in DOMAIN request.StateMap /\ request.StateMap[p.State])

\* The first loop with no end of page.
RECURSIVE ScanWithoutPageEnd(_, _, _, _, _)
ScanWithoutPageEnd(all, request, i, pageStarted, out) ==
    IF i = 0 THEN [proposals |-> out, beforeIdx |-> 0]
    ELSE IF Filtered(request, all[i])
    THEN ScanWithoutPageEnd(all, request, i - 1, pageStarted, out)
    ELSE IF pageStarted
    THEN ScanWithoutPageEnd(all, request, i - 1, TRUE, Append(out, all[i]))
    ELSE IF request.After # 0
    THEN ScanWithoutPageEnd(all, request, i - 1,
                            all[i].CensorshipRecord.Token = request.After, out)
    ELSE IF request.Before # 0
    THEN IF all[i].CensorshipRecord.Token = request.Before
         THEN [proposals |-> out, beforeIdx |-> i]
         ELSE ScanWithoutPageEnd(all, request, i - 1, pageStarted, out)
    ELSE ScanWithoutPageEnd(all, request, i - 1, pageStarted, out)

\* The first loop with the page starting at the after token itself.
RECURSIVE ScanFromAfter(_, _, _, _, _)
ScanFromAfter(all, request, i, pageStarted, out) ==
    IF i = 0 THEN [proposals |-> out, beforeIdx |-> 0]
    ELSE IF Filtered(request, all[i])
    THEN ScanFromAfter(all, request, i - 1, pageStarted, out)
    ELSE IF pageStarted \/ (request.After # 0
                              /\ all[i].CensorshipRecord.Token = request.After)
    THEN LET out2 == Append(out, all[i]) IN
         IF Len(out2) >= ProposalListPageSize
         THEN [proposals |-> out2, beforeIdx |-> 0]
         ELSE ScanFromAfter(all, request, i - 1, TRUE, out2)
    ELSE IF request.After # 0
    THEN ScanFromAfter(all, request, i - 1, FALSE, out)
    ELSE IF request.Before # 0
    THEN IF all[i].CensorshipRecord.Token = request.Before
         THEN [proposals |-> out, beforeIdx |-> i]
         ELSE ScanFromAfter(all, request, i - 1, pageStarted, out)
    ELSE ScanFromAfter(all, request, i - 1, pageStarted, out)

\* The first loop of getProposals, from the index i down: all is sorted,
\* indexed from 1, and beforeIdx is 0 while the loop has not set it.
RECURSIVE Scan(_, _, _, _, _)
Scan(all, request, i, pageStarted, out) ==
    IF i = 0 THEN [proposals |-> out, beforeIdx |-> 0]
    ELSE IF Filtered(request, all[i])
    THEN Scan(all, request, i - 1, pageStarted, out)
    ELSE IF pageStarted
    THEN LET out2 == Append(out, all[i]) IN
         IF Len(out2) >= ProposalListPageSize
         THEN [proposals |-> out2, beforeIdx |-> 0]
         ELSE Scan(all, request, i - 1, TRUE, out2)
    ELSE IF request.After # 0
    THEN Scan(all, request, i - 1,
              all[i].CensorshipRecord.Token = request.After, out)
    ELSE IF request.Before # 0
    THEN IF all[i].CensorshipRecord.Token = request.Before
         THEN [proposals |-> out, beforeIdx |-> i]
         ELSE Scan(all, request, i - 1, pageStarted, out)
    ELSE Scan(all, request, i - 1, pageStarted, out)

\* The proposals of all from the index i down to lo, newest first.
RECURSIVE CollectDown(_, _, _, _, _)
CollectDown(all, request, lo, i, out) ==
    IF i < lo THEN out
    ELSE IF Filtered(request, all[i]) THEN CollectDown(all, request, lo, i - 1, out)
    ELSE LET out2 == Append(out, all[i]) IN
         IF Len(out2) >= ProposalListPageSize THEN out2
         ELSE CollectDown(all, request, lo, i - 1, out2)

\* The second loop walking down from the newest proposal.
CollectFromNewest(all, request, j, out) ==
    CollectDown(all, request, j, Len(all), out)

\* The second loop of getProposals, from the index j up.
RECURSIVE CollectBefore(_, _, _, _)
CollectBefore(all, request, j, out) ==
    IF j > Len(all) THEN out
    ELSE IF Filtered(request, all[j]) THEN CollectBefore(all, request, j + 1, out)
    ELSE LET out2 == <<all[j]>> \o out IN
         IF Len(out2) >= ProposalListPageSize THEN out2
         ELSE CollectBefore(all, request, j + 1, out2)

\* getProposals without the sort: the proposals in the order of the map.
GetProposalsUnsorted(b, request, order) ==
    LET allProposals == _getAllProposals(b, order)
        pageStarted == request.After = 0 /\ request.Before = 0
        r == Scan(allProposals, request, Len(allProposals), pageStarted, <<>>)
    IN  IF r.beforeIdx > 0
        THEN CollectBefore(allProposals, request, r.beforeIdx + 1, r.proposals)
        ELSE r.proposals

getProposals(b, request, order) ==
    LET allProposals == SortSlice(_getAllProposals(b, order))
        pageStarted == request.After = 0 /\ request.Before = 0
        r == Scan(allProposals, request, Len(allProposals), pageStarted, <<>>)
    IN  IF r.beforeIdx > 0
        THEN CollectBefore(allProposals, request, r.beforeIdx + 1, r.proposals)
        ELSE r.proposals

-----------------------------------------------------------------------------
(* The calls, each made with the mutex held for the whole call *)

\* The last call; for an update, old is the status it found in the entry.
\* The call made, run as one step: the guard and the threads are as before.
Called(name, t, old) ==
    /\ op' = [name |-> name, token |-> t, old |-> old]
    /\ UNCHANGED <<mu, proc>>

newInventoryRecord(record) ==
    LET r == _newInventoryRecord(Backend, record) IN
    /\ Created(r.b) <= MaxCreated
    /\ Store(r.b)
    /\ err' = r.err
    /\ Called("newInventoryRecord", record.CensorshipRecord.Token, "none")
    /\ UNCHANGED <<got, pr, proposals, ps>>

updateInventoryRecord(record) ==
    LET r == _updateInventoryRecord(Backend, record)
        t == record.CensorshipRecord.Token
    IN
    /\ \A k \in DOMAIN r.b.inventory : Len(r.b.inventory[k].changes) <= MaxChanges
    /\ Store(r.b)
    /\ err' = r.err
    /\ Called("updateInventoryRecord", t,
              IF t \in DOMAIN inventory THEN inventory[t].record.Status ELSE "none")
    /\ UNCHANGED <<got, pr, proposals, ps>>

setRecordComment(comment) ==
    LET r == _setRecordComment(Backend, comment) IN
    /\ Store(r.b)
    /\ err' = r.err
    /\ Called("setRecordComment", comment.Token, "none")
    /\ UNCHANGED <<got, pr, proposals, ps>>

setRecordVoting(token, sv, svr) ==
    LET r == _setRecordVoting(Backend, token, sv, svr) IN
    /\ Store(r.b)
    /\ err' = r.err
    /\ Called("setRecordVoting", token, "none")
    /\ UNCHANGED <<got, pr, proposals, ps>>

setRecordVoteAuthorization(token, avr) ==
    LET r == _setRecordVoteAuthorization(Backend, token, avr) IN
    /\ Store(r.b)
    /\ err' = r.err
    /\ Called("setRecordVoteAuthorization", token, "none")
    /\ UNCHANGED <<got, pr, proposals, ps>>

getInventoryRecord(token) ==
    LET r == _getInventoryRecord(Backend, token) IN
    /\ got' = r.r
    /\ err' = r.err
    /\ Called("getInventoryRecord", token, "none")
    /\ UNCHANGED <<inventory, numOfInvalid, numOfCensored, numOfUnvetted,
                   numOfUnvettedChanges, numOfPublic, numOfAbandoned,
                   numOfPropsByUserID, commentMaps, pr, proposals, ps>>

\* initializeInventory, called with the reply inv of the bulk fetch.
CallInitializeInventory(inv, nets) ==
    LET r == initializeInventory(Backend, inv, nets) IN
    /\ Created(r.b) <= MaxCreated
    /\ Store(r.b)
    /\ err' = r.err
    /\ op' = [name |-> "initializeInventory", token |-> 0, old |-> "none",
              inv |-> inv, nets |-> nets]
    /\ UNCHANGED <<mu, proc>>
    /\ UNCHANGED <<got, pr, proposals, ps>>

\* getProposals: the snapshot under the read lock, then the sort and the
\* walk on the copy.
CallGetProposals(request, order) ==
    /\ pr' = request
    /\ proposals' = getProposals(Backend, request, order)
    /\ err' = Nil
    /\ Called("getProposals", 0, "none")
    /\ UNCHANGED <<inventory, numOfInvalid, numOfCensored, numOfUnvetted,
                   numOfUnvettedChanges, numOfPublic, numOfAbandoned,
                   numOfPropsByUserID, commentMaps, got, ps>>

-----------------------------------------------------------------------------
(* The cache under inserts, updates and setters *)

Init ==
    /\ inventory = EmptyBackend.inventory
    /\ numOfInvalid = EmptyBackend.numOfInvalid
    /\ numOfCensored = EmptyBackend.numOfCensored
    /\ numOfUnvetted = EmptyBackend.numOfUnvetted
    /\ numOfUnvettedChanges = EmptyBackend.numOfUnvettedChanges
    /\ numOfPublic = EmptyBackend.numOfPublic
    /\ numOfAbandoned = EmptyBackend.numOfAbandoned
    /\ numOfPropsByUserID = EmptyBackend.numOfPropsByUserID
    /\ commentMaps = EmptyBackend.commentMaps
    /\ op = NoOp
    /\ err = Nil
    /\ got = NoRecord
    /\ pr = NoRequest
    /\ proposals = <<>>
    /\ ps = NoStats
    /\ mu = Unlocked
    /\ proc = [p \in Threads |-> Idle]

\* The metadata of the records of the token t: the proposals of the odd
\* tokens are of the user u1, those of the even tokens have no general
\* stream and so no author the cache can resolve.  The records of the
\* first token carry a status change as well.
MetadataOf(t) ==
    IF t = 1 THEN <<General("pk1"), Stream("changes", <<Doc("change")>>)>>
    ELSE IF t % 2 = 1 THEN <<General("pk1")>>
    ELSE <<>>

\* The records of the calls: every status, with and without an author.
Records ==
    {Record(t, s, 1, MetadataOf(t)) : t \in Tokens, s \in RecordStatuses}

Next ==
    \/ \E record \in Records : newInventoryRecord(record)
    \/ \E record \in Records : updateInventoryRecord(record)

Spec == Init /\ [][Next]_vars

-----------------------------------------------------------------------------
(* The cache under inserts, updates and the setters *)

SetRecords ==
    {Record(t, s, 1, <<General("pk1")>>) : t \in Tokens, s \in {"notreviewed", "public"}}

Comments == {Comment(t, "c1", "x") : t \in Tokens}

NextSet ==
    \/ \E record \in SetRecords : newInventoryRecord(record)
    \/ \E record \in SetRecords : updateInventoryRecord(record)
    \/ \E comment \in Comments : setRecordComment(comment)
    \/ \E t \in Tokens : setRecordVoting(t, "sv", "svr")
    \/ \E t \in Tokens : setRecordVoteAuthorization(t, "avr")

SpecSet == Init /\ [][NextSet]_vars

-----------------------------------------------------------------------------
(* The cache under writers and a caller of getInventoryRecord *)

GetRecords ==
    {Record(t, s, 1, MetadataOf(t)) : t \in Tokens, s \in {"notreviewed", "public"}}

NextGet ==
    \/ \E record \in GetRecords : newInventoryRecord(record)
    \/ \E record \in GetRecords : updateInventoryRecord(record)
    \/ \E comment \in Comments : setRecordComment(comment)
    \/ \E t \in Tokens : setRecordVoteAuthorization(t, "avr")
    \/ \E t \in Tokens : getInventoryRecord(t)

SpecGet == Init /\ [][NextGet]_vars

-----------------------------------------------------------------------------
(* The cache under bulk initialization and the other writers *)

OkCall(v) == [challenge |-> 1, err |-> Nil, Response |-> 1, ok |-> TRUE, v |-> v]

BadProofCall(v) == [challenge |-> 1, err |-> Nil, Response |-> 2, ok |-> TRUE, v |-> v]

\* The plugin calls a record of the bulk reply may meet.
NetsFor(record) ==
    LET t == record.CensorshipRecord.Token
    IN  {[comments |-> OkCall(<<Comment(t, "c1", "x")>>),
          likes |-> OkCall(<<>>), ids |-> <<>>],
         [comments |-> BadProofCall(<<Comment(t, "c1", "x")>>),
          likes |-> OkCall(<<>>), ids |-> <<>>]}

InitRecords == {Record(t, "public", 1, <<General("pk1")>>) : t \in Tokens}

Inventories ==
    LET one == {<<>>} \cup {<<r>> : r \in InitRecords}
    IN  {[Vetted |-> v, Branches |-> br] : v \in one, br \in one}

NetsOf(vs) ==
    {ns \in [DOMAIN vs -> UNION {NetsFor(r) : r \in InitRecords}] :
        \A i \in DOMAIN vs : ns[i] \in NetsFor(vs[i])}

NextInit ==
    \/ \E inv \in Inventories :
          \E nets \in NetsOf(inv.Vetted \o inv.Branches) :
             CallInitializeInventory(inv, nets)
    \/ \E record \in InitRecords : newInventoryRecord(record)
    \/ \E record \in InitRecords : updateInventoryRecord(record)
    \/ \E comment \in Comments : setRecordComment(comment)
    \/ \E t \in Tokens : setRecordVoting(t, "sv", "svr")
    \/ \E t \in Tokens : setRecordVoteAuthorization(t, "avr")

SpecInit == Init /\ [][NextInit]_vars

-----------------------------------------------------------------------------
(* The pages of a populated cache *)

ListTokens == 1..MaxListToken

\* The records token t may have been inserted with: a public proposal of
\* user u1 or an unreviewed one of user u2, at any of the timestamps.
ListRecords(t) ==
    {Record(t, v[1], ts, <<General(v[2])>>) :
        ts \in 1..MaxTimestamp,
        v \in {<<"public", "pk1">>, <<"notreviewed", "pk2">>}}

\* The backend after the inserts of the records f[t], in the order of t.
RECURSIVE InsertFrom(_, _, _)
InsertFrom(b, f, t) ==
    IF t > MaxListToken THEN b
    ELSE InsertFrom(IF t \in DOMAIN f THEN _newInventoryRecord(b, f[t]).b ELSE b,
                    f, t + 1)

InitList ==
    /\ \E S \in SUBSET ListTokens :
          \E f \in [S -> UNION {ListRecords(t) : t \in ListTokens}] :
             /\ \A t \in S : f[t] \in ListRecords(t)
             /\ LET b == InsertFrom(EmptyBackend, f, 1) IN
                /\ inventory = b.inventory
                /\ numOfInvalid = b.numOfInvalid
                /\ numOfCensored = b.numOfCensored
                /\ numOfUnvetted = b.numOfUnvetted
                /\ numOfUnvettedChanges = b.numOfUnvettedChanges
                /\ numOfPublic = b.numOfPublic
                /\ numOfAbandoned = b.numOfAbandoned
                /\ numOfPropsByUserID = b.numOfPropsByUserID
                /\ commentMaps = b.commentMaps
    /\ op = NoOp
    /\ err = Nil
    /\ got = NoRecord
    /\ pr = NoRequest
    /\ proposals = <<>>
    /\ ps = NoStats
    /\ mu = Unlocked
    /\ proc = [p \in Threads |-> Idle]

\* The cursors of a request: none, one of them, or both on one token.
Cursors ==
    {c \in (0..MaxListToken) \X (0..MaxListToken) :
        c[1] = 0 \/ c[2] = 0 \/ c[1] = c[2]}

\* The requests: no filter, the filter by user or the filter by state.
Requests ==
    {[After |-> c[1], Before |-> c[2], UserId |-> f[1], StateMap |-> f[2]] :
        c \in Cursors,
        f \in {<<"", [x \in {"vetted", "unvetted"} |-> TRUE]>>,
               <<"u1", [x \in {"vetted", "unvetted"} |-> TRUE]>>,
               <<"", [x \in {"vetted"} |-> TRUE]>>}}

\* One request is made of each populated cache.
NextList ==
    /\ op = NoOp
    /\ \E order \in Orders(DOMAIN inventory) :
          \E request \in Requests : CallGetProposals(request, order)

SpecList == InitList /\ [][NextList]_vars

-----------------------------------------------------------------------------
(* Properties of the counters and of the failing calls *)

\* The six counters, by bucket.
Counters ==
    [invalid |-> numOfInvalid, censored |-> numOfCensored,
     unvetted |-> numOfUnvetted, unvettedChanges |-> numOfUnvettedChanges,
     public |-> numOfPublic, abandoned |-> numOfAbandoned]

\* The bucket a record status is counted in.
BucketOf(s) ==
    CASE s = "notreviewed" -> "unvetted"
      [] s = "unreviewedchanges" -> "unvettedChanges"
      [] s = "censored" -> "censored"
      [] s = "public" -> "public"
      [] s = "archived" -> "abandoned"
      [] OTHER -> "invalid"

\* The counters c with one unit moved from the bucket from to the bucket to.
Move(c, from, to) ==
    [k \in DOMAIN c |->
        c[k] - (IF k = from THEN 1 ELSE 0) + (IF k = to THEN 1 ELSE 0)]

\* C1: after any sequence of inserts and updates, successful or failing,
\* the six status counters sum to the number of entries of the cache.
C1_CountersSumToEntries ==
    numOfInvalid + numOfCensored + numOfUnvetted + numOfUnvettedChanges
        + numOfPublic + numOfAbandoned = Cardinality(DOMAIN inventory)

\* Two entries, the insert of token 2 having failed on its author, and an
\* update of token 2 from censored to abandoned.
C1_Witness ==
    /\ DOMAIN inventory = {1, 2}
    /\ numOfPropsByUserID["u1"] = 1
    /\ op = [name |-> "updateInventoryRecord", token |-> 2, old |-> "censored"]
    /\ err = Nil
    /\ numOfAbandoned = 2

\* C2: an insert of a token that is in the cache fails with the duplicate
\* token error and leaves the entries, the counters and the per-user counts
\* as they were.
C2_DuplicateInsertChangesNothing ==
    [][(op'.name = "newInventoryRecord" /\ op'.token \in DOMAIN inventory)
          => (err' = ErrDuplicate /\ Backend' = Backend)]_vars

\* A failed second insert into a cache that holds a comment and a vote.
C2_Witness ==
    /\ op.name = "newInventoryRecord"
    /\ err = ErrDuplicate
    /\ op.token \in DOMAIN inventory
    /\ commentMaps[inventory[op.token].comments] # Empty
    /\ inventory[op.token].voting = "svr"
    /\ numOfPropsByUserID["u1"] = 2

\* C3: an update of an existing token from status s to s' moves exactly one
\* unit from the bucket of s to the bucket of s' (nothing when they are the
\* same bucket) and leaves the other buckets and the set of entries alone.
C3_UpdateMovesOneUnit ==
    [][(op'.name = "updateInventoryRecord" /\ op'.token \in DOMAIN inventory)
          => /\ DOMAIN inventory' = DOMAIN inventory
             /\ Counters' = Move(Counters,
                                 BucketOf(inventory[op'.token].record.Status),
                                 BucketOf(inventory'[op'.token].record.Status))]_vars

\* Token 1 went from unvetted to public while token 2 stays censored.
C3_Witness ==
    /\ op = [name |-> "updateInventoryRecord", token |-> 1, old |-> "notreviewed"]
    /\ err = Nil
    /\ DOMAIN inventory = {1, 2}
    /\ inventory[1].record.Status = "public"
    /\ inventory[2].record.Status = "censored"
    /\ numOfPublic = 1
    /\ numOfUnvetted = 0
    /\ numOfCensored = 1

\* C4: update, setComment, setVoteAuthorization and setRecordVoting on a
\* token that is not in the cache return the not-found error, create no
\* entry and leave the entries and the counters as they were.
C4_MissingTokenChangesNothing ==
    [][(/\ op'.name \in {"updateInventoryRecord", "setRecordComment",
                         "setRecordVoteAuthorization", "setRecordVoting"}
        /\ op'.token \notin DOMAIN inventory)
          => (err' = ErrNotFound /\ Backend' = Backend)]_vars

\* A vote authorization refused for token 2 while token 1 is in the cache.
C4_Witness ==
    /\ op.name = "setRecordVoteAuthorization"
    /\ op.token = 2
    /\ err = ErrNotFound
    /\ DOMAIN inventory = {1}
    /\ inventory[1].voteAuthorization = "avr"

-----------------------------------------------------------------------------
(* Properties of the returned copies and of the life of the entries *)

\* What the caller reads through the value getInventoryRecord returned.
GotView ==
    IF got.ok
    THEN [ok |-> TRUE, ir |-> got.ir, comments |-> commentMaps[got.ir.comments]]
    ELSE got

\* C5: the value get returned is an independent deep copy: as long as the
\* caller holds it, no later mutation of the cache changes what it reads
\* through it, its comments included.
C5_GetReturnsIndependentCopy ==
    [][(got.ok /\ got' = got) => GotView' = GotView]_vars

-----------------------------------------------------------------------------
(* Properties of the pages *)

\* The proposals of the cache that the request does not filter out.
Wanted ==
    {p \in {ProposalOf(Backend, t) : t \in DOMAIN inventory} :
        /\ pr.UserId = "" \/ p.UserId = pr.UserId
        /\ p.State \in DOMAIN pr.StateMap
        /\ pr.StateMap[p.State]}

\* p comes before q in the newest-first order.
Newer(p, q) ==
    \/ p.Timestamp > q.Timestamp
    \/ /\ p.Timestamp = q.Timestamp
       /\ p.CensorshipRecord.Token < q.CensorshipRecord.Token

\* The wanted proposals, newest first: the i-th is the one that i - 1 of
\* the others are newer than.
NewestFirst ==
    [i \in 1..Cardinality(Wanted) |->
        CHOOSE p \in Wanted : Cardinality({q \in Wanted : Newer(q, p)}) = i - 1]

\* The places of the token t in the sequence f.
PlacesOf(f, t) == {i \in DOMAIN f : f[i].CensorshipRecord.Token = t}

Min(a, b) == IF a < b THEN a ELSE b

Max(a, b) == IF a > b THEN a ELSE b

\* C7: whatever the cache and the request, getProposals returns at most
\* ProposalListPageSize proposals.
C7_AtMostOnePage ==
    op.name = "getProposals" => Len(proposals) <= ProposalListPageSize

\* A full page out of more wanted proposals than a page holds, for a
\* request with both cursors set.
C7_Witness ==
    /\ op.name = "getProposals"
    /\ pr.After # 0
    /\ pr.Before # 0
    /\ Cardinality(Wanted) > ProposalListPageSize + 1
    /\ Len(proposals) = ProposalListPageSize

C9_WitnessNoMatch ==
    /\ op.name = "getProposals"
    /\ pr.After \in DOMAIN inventory
    /\ pr.Before = 0
    /\ PlacesOf(NewestFirst, pr.After) = {}
    /\ Wanted # {}
    /\ proposals = <<>>

NewestFirstOf(S) ==
    [i \in 1..Cardinality(S) |->
        CHOOSE p \in S : Cardinality({q \in S : Newer(q, p)}) = i - 1]

\* The cursor of the request when only one is set, 0 otherwise.
CursorOf(request) ==
    IF request.Before = 0 THEN request.After
    ELSE IF request.After = 0 THEN request.Before
    ELSE 0

\* C11: a cursor T that names an entry of the cache which the filters of the
\* request reject still positions the page: with after = T the page is the
\* wanted proposals that follow T's place in the sorted sequence, with
\* before = T the wanted proposals just before it, up to a page.
C11_CursorValidOutsideFilter ==
    (/\ op.name = "getProposals"
     /\ CursorOf(pr) \in DOMAIN inventory
     /\ ProposalOf(Backend, CursorOf(pr)) \notin Wanted)
        => LET at == ProposalOf(Backend, CursorOf(pr))
               older == NewestFirstOf({p \in Wanted : Newer(at, p)})
               newer == NewestFirstOf({p \in Wanted : Newer(p, at)})
           IN  IF pr.After # 0
               THEN proposals = SubSeq(older, 1, Min(ProposalListPageSize, Len(older)))
               ELSE proposals = SubSeq(newer, Max(1, Len(newer) - ProposalListPageSize + 1),
                                       Len(newer))

-----------------------------------------------------------------------------
(* The bulk initialization of an empty cache *)

\* The metadata a record of the bulk reply may carry: a general stream
\* that decodes, one that does not, an empty one, and a general stream
\* that decodes next to a changes stream that does not.
LoadMetadata ==
    {<<General("pk1")>>,
     <<Stream("general", <<BadDoc>>)>>,
     <<Stream("general", <<>>)>>,
     <<General("pk1"), Stream("changes", <<BadDoc>>)>>}

LoadRecords == {Record(t, "public", 1, md) : t \in Tokens, md \in LoadMetadata}

LoadInventories ==
    LET one == {<<>>} \cup {<<r>> : r \in LoadRecords}
    IN  {[Vetted |-> v, Branches |-> br] : v \in one, br \in one}

LoadNetsOf(vs) ==
    {ns \in [DOMAIN vs -> UNION {NetsFor(r) : r \in LoadRecords}] :
        \A i \in DOMAIN vs : ns[i] \in NetsFor(vs[i])}

\* One bulk reply is loaded into the empty cache.
NextLoad ==
    /\ op = NoOp
    /\ \E inv \in LoadInventories :
          \E nets \in LoadNetsOf(inv.Vetted \o inv.Branches) :
             CallInitializeInventory(inv, nets)

SpecLoad == Init /\ [][NextLoad]_vars

\* The stream m has a payload the loader of its id cannot take a value of.
BadStream(m) == m.Payload = <<>> \/ \E i \in DOMAIN m.Payload : ~m.Payload[i].ok

\* The plugin call x came back, with a valid proof and a payload that decodes.
GoodCall(x) == x.err = Nil /\ VerifyChallenge(x.challenge, x.Response) /\ x.ok

\* C12: an initialization whose reply has distinct tokens and whose plugin
\* calls all succeed returns no error and leaves every record of the reply
\* in the cache, also when a record of the reply carries a metadata stream
\* that does not decode or is empty.
C12_InitializationNotAborted ==
    LET vs == op.inv.Vetted \o op.inv.Branches IN
    (/\ op.name = "initializeInventory"
     /\ \A i, j \in DOMAIN vs :
           vs[i].CensorshipRecord.Token = vs[j].CensorshipRecord.Token => i = j
     /\ \A i \in DOMAIN vs : GoodCall(op.nets[i].comments) /\ GoodCall(op.nets[i].likes)
     /\ \E i \in DOMAIN vs : \E k \in DOMAIN vs[i].Metadata : BadStream(vs[i].Metadata[k]))
        => /\ err = Nil
           /\ \A i \in DOMAIN vs : vs[i].CensorshipRecord.Token \in DOMAIN inventory

-----------------------------------------------------------------------------
(* The calls step by step, under the RWMutex *)

bvars == <<inventory, numOfInvalid, numOfCensored, numOfUnvetted,
           numOfUnvettedChanges, numOfPublic, numOfAbandoned,
           numOfPropsByUserID, commentMaps>>

\* b.Lock()
Lock(p) ==
    /\ mu.writer = "none"
    /\ mu.readers = {}
    /\ mu' = [mu EXCEPT !.writer = p]

\* b.Unlock()
Unlock(p) == mu' = [mu EXCEPT !.writer = "none"]

\* b.RLock()
RLock(p) ==
    /\ mu.writer = "none"
    /\ mu' = [mu EXCEPT !.readers = @ \cup {p}]

\* b.RUnlock()
RUnlock(p) == mu' = [mu EXCEPT !.readers = @ \ {p}]

\* The thread p goes on at the place l of its call, with the locals l.
Goto(p, l) == proc' = [proc EXCEPT ![p] = l]

\* The call of the thread p, made with the mutex held, returns e and its
\* caller unlocks.
Return(p, e) ==
    /\ err' = e
    /\ Unlock(p)
    /\ Goto(p, Idle)

\* The caller of initializeInventory locks and calls it with the reply inv.
InitLock(p, inv) ==
    /\ proc[p] = Idle
    /\ Lock(p)
    /\ Goto(p, [pc |-> "init557", vs |-> inv.Vetted \o inv.Branches])
    /\ UNCHANGED <<bvars, op, err, got, pr, proposals, ps>>

\* b.inventory = make(map[string]*inventoryRecord)
InitReset(p) ==
    /\ proc[p].pc = "init557"
    /\ Store(Collect([Backend EXCEPT !.inventory = Empty]))
    /\ Goto(p, [proc[p] EXCEPT !.pc = "init559"])
    /\ UNCHANGED <<mu, op, err, got, pr, proposals, ps>>

\* The head of the loop: the end of the reply, or _newInventoryRecord(v).
InitNext(p) ==
    /\ proc[p].pc = "init559"
    /\ IF proc[p].vs = <<>>
       THEN Return(p, Nil) /\ UNCHANGED bvars
       ELSE LET r == _newInventoryRecord(Backend, Head(proc[p].vs)) IN
            /\ Created(r.b) <= MaxCreated
            /\ Store(r.b)
            /\ IF r.err # Nil THEN Return(p, r.err)
               ELSE /\ Goto(p, [proc[p] EXCEPT !.pc = "load226"])
                    /\ UNCHANGED <<mu, err>>
    /\ UNCHANGED <<op, got, pr, proposals, ps>>

\* loadRecord: b.loadRecordMetadata(record)
InitLoadMetadata(p) ==
    /\ proc[p].pc = "load226"
    /\ Store(loadRecordMetadata(Backend, Head(proc[p].vs)).b)
    /\ Goto(p, [proc[p] EXCEPT !.pc = "load229"])
    /\ UNCHANGED <<mu, op, err, got, pr, proposals, ps>>

\* loadComments, up to b.makeRequest: the request is sent with a challenge.
SendGetComments(p) ==
    /\ proc[p].pc = "load229"
    /\ Goto(p, [proc[p] EXCEPT !.pc = "await393"])
    /\ UNCHANGED <<bvars, mu, op, err, got, pr, proposals, ps>>

\* loadComments, from the reply x of the plugin on.
RecvGetComments(p, x) ==
    /\ proc[p].pc = "await393"
    /\ LET r == loadComments(Backend, Head(proc[p].vs).CensorshipRecord.Token, x) IN
       /\ Store(r.b)
       /\ IF r.err # Nil THEN Return(p, r.err)
          ELSE /\ Goto(p, [proc[p] EXCEPT !.pc = "load234"])
               /\ UNCHANGED <<mu, err>>
    /\ UNCHANGED <<op, got, pr, proposals, ps>>

\* _loadCommentsLikes, up to b.makeRequest.
SendGetLikes(p) ==
    /\ proc[p].pc = "load234"
    /\ Goto(p, [proc[p] EXCEPT !.pc = "await457"])
    /\ UNCHANGED <<bvars, mu, op, err, got, pr, proposals, ps>>

\* _loadCommentsLikes, from the reply x of the plugin on.
RecvGetLikes(p, x) ==
    /\ proc[p].pc = "await457"
    /\ LET r == _loadCommentsLikes(Backend, Head(proc[p].vs).CensorshipRecord.Token, x) IN
       /\ Store(r.b)
       /\ IF r.err # Nil THEN Return(p, r.err)
          ELSE /\ Goto(p, [proc[p] EXCEPT !.pc = "load239"])
               /\ UNCHANGED <<mu, err>>
    /\ UNCHANGED <<op, got, pr, proposals, ps>>

\* loadRecord: b._processCommentsLikesResults(t), then the next record.
Tally(p, ids) ==
    /\ proc[p].pc = "load239"
    /\ LET r == _processCommentsLikesResults(
                    Backend, Head(proc[p].vs).CensorshipRecord.Token, ids) IN
       /\ Store(r.b)
       /\ IF r.err # Nil THEN Return(p, r.err)
          ELSE /\ Goto(p, [pc |-> "init559", vs |-> Tail(proc[p].vs)])
               /\ UNCHANGED <<mu, err>>
    /\ UNCHANGED <<op, got, pr, proposals, ps>>

_inventoryProposalStats(b) ==
    [NumOfInvalid |-> b.numOfInvalid,
     NumOfCensored |-> b.numOfCensored,
     NumOfUnvetted |-> b.numOfUnvetted,
     NumOfUnvettedChanges |-> b.numOfUnvettedChanges,
     NumOfPublic |-> b.numOfPublic,
     NumOfAbandoned |-> b.numOfAbandoned]

\* inventoryProposalStats: b.RLock()
StatsRLock(p) ==
    /\ proc[p] = Idle
    /\ RLock(p)
    /\ Goto(p, [pc |-> "stats73"])
    /\ UNCHANGED <<bvars, op, err, got, pr, proposals, ps>>

\* inventoryProposalStats: return b._inventoryProposalStats(), and the
\* deferred b.RUnlock().
StatsReturn(p) ==
    /\ proc[p].pc = "stats73"
    /\ ps' = _inventoryProposalStats(Backend)
    /\ RUnlock(p)
    /\ Goto(p, Idle)
    /\ UNCHANGED <<bvars, op, err, got, pr, proposals>>

-----------------------------------------------------------------------------
(* The initialization step by step, next to a reader of the counters *)

\* The replies of the plugin to a call about the token t.
CommentReplies(t) ==
    {OkCall(<<Comment(t, "c1", "x")>>), BadProofCall(<<Comment(t, "c1", "x")>>)}

LikeReplies(t) ==
    {OkCall(<<LikeComment(t, "c1", "pk1", 1, 1)>>), BadProofCall(<<>>)}

NextRpc ==
    \/ \E inv \in Inventories : InitLock("w1", inv)
    \/ InitReset("w1")
    \/ InitNext("w1")
    \/ InitLoadMetadata("w1")
    \/ SendGetComments("w1")
    \/ /\ proc["w1"].pc = "await393"
       /\ \E x \in CommentReplies(Head(proc["w1"].vs).CensorshipRecord.Token) :
             RecvGetComments("w1", x)
    \/ SendGetLikes("w1")
    \/ /\ proc["w1"].pc = "await457"
       /\ \E x \in LikeReplies(Head(proc["w1"].vs).CensorshipRecord.Token) :
             RecvGetLikes("w1", x)
    \/ /\ proc["w1"].pc = "load239"
       /\ \E ids \in Orders(DOMAIN inventory[Head(proc["w1"].vs).CensorshipRecord.Token].commentsLikes) :
             Tally("w1", ids)
    \/ StatsRLock("rd")
    \/ StatsReturn("rd")

SpecRpc == Init /\ [][NextRpc]_vars

\* C13: no thread waits for the reply of a plugin call it has sent while it
\* holds the mutex as its writer.
C13_NoRpcUnderLock ==
    \A p \in Threads :
        ~(proc[p].pc \in {"await393", "await457"} /\ mu.writer = p)

-----------------------------------------------------------------------------
(* The comment likes of a proposal and their tally *)

MaxLikes == 3

\* loadComments(t), the plugin answering x.
CallLoadComments(t, x) ==
    LET r == loadComments(Backend, t, x) IN
    /\ Store(r.b)
    /\ err' = r.err
    /\ op' = [name |-> "loadComments", token |-> t, old |-> "none", x |-> x]
    /\ UNCHANGED <<mu, proc>>
    /\ UNCHANGED <<got, pr, proposals, ps>>

\* _loadCommentsLikes(token), the plugin answering x.
CallLoadCommentsLikes(token, x) ==
    LET r == _loadCommentsLikes(Backend, token, x) IN
    /\ Store(r.b)
    /\ err' = r.err
    /\ op' = [name |-> "_loadCommentsLikes", token |-> token, old |-> "none", x |-> x]
    /\ UNCHANGED <<mu, proc>>
    /\ UNCHANGED <<got, pr, proposals, ps>>

\* _processCommentsLikesResults(token), the range loop visiting the
\* comment ids in the order ids; again tells a run that follows a run.
CallProcessCommentsLikesResults(token, ids) ==
    LET r == _processCommentsLikesResults(Backend, token, ids) IN
    /\ Store(r.b)
    /\ err' = r.err
    /\ op' = [name |-> "_processCommentsLikesResults", token |-> token,
              old |-> "none", again |-> op.name = "_processCommentsLikesResults"]
    /\ UNCHANGED <<mu, proc>>
    /\ UNCHANGED <<got, pr, proposals, ps>>

\* The proposal of the tally: token 1, with the comments c1 and c2.
TallyBackend ==
    LET b1 == _newInventoryRecord(EmptyBackend, Record(1, "public", 1, <<General("pk1")>>)).b
        b2 == _setRecordComment(b1, Comment(1, "c1", "x")).b
    IN  _setRecordComment(b2, Comment(1, "c2", "y")).b

InitTally ==
    /\ inventory = TallyBackend.inventory
    /\ numOfInvalid = TallyBackend.numOfInvalid
    /\ numOfCensored = TallyBackend.numOfCensored
    /\ numOfUnvetted = TallyBackend.numOfUnvetted
    /\ numOfUnvettedChanges = TallyBackend.numOfUnvettedChanges
    /\ numOfPublic = TallyBackend.numOfPublic
    /\ numOfAbandoned = TallyBackend.numOfAbandoned
    /\ numOfPropsByUserID = TallyBackend.numOfPropsByUserID
    /\ commentMaps = TallyBackend.commentMaps
    /\ op = NoOp
    /\ err = Nil
    /\ got = NoRecord
    /\ pr = NoRequest
    /\ proposals = <<>>
    /\ ps = NoStats
    /\ mu = Unlocked
    /\ proc = [p \in Threads |-> Idle]

\* The like events: those of two users on the comment c1, at any of the
\* timestamps, and a like of the comment c2.
LikeEvents ==
    {LikeComment(1, "c1", pk, a, ts) :
        pk \in {"pk1", "pk2"}, a \in {1, -1}, ts \in 1..MaxTimestamp}
    \cup {LikeComment(1, "c2", "pk1", 1, 1)}

\* The replies of the plugin: up to MaxLikes events in their ingestion order.
LikeSeqs == UNION {[1..n -> LikeEvents] : n \in 0..MaxLikes}

\* The likes are loaded once, and tallied any number of times.
NextTally ==
    \/ /\ op = NoOp
       /\ \E ls \in LikeSeqs : CallLoadCommentsLikes(1, OkCall(ls))
    \/ /\ op # NoOp
       /\ \E ids \in Orders(DOMAIN inventory[1].commentsLikes) :
             CallProcessCommentsLikesResults(1, ids)

SpecTally == InitTally /\ [][NextTally]_vars

\* The up and down totals of the comments of the token t.
Totals(t) ==
    LET m == commentMaps[inventory[t].comments]
    IN  [c \in DOMAIN m |-> <<m[c].upVotes, m[c].downVotes>>]

\* C14: a run of the tally that follows a run of the tally on the same
\* token, the comment likes being what they were, leaves the up and down
\* totals of every comment of the token as the first run left them.
C14_TallyIdempotent ==
    [][(/\ op.name = "_processCommentsLikesResults"
        /\ op'.name = "_processCommentsLikesResults"
        /\ op'.token = op.token
        /\ inventory'[op.token].commentsLikes = inventory[op.token].commentsLikes)
          => Totals(op.token)' = Totals(op.token)]_vars

\* The tally has run twice in a row on likes of both comments, one of them
\* liked and disliked.
C14_Witness ==
    /\ op.name = "_processCommentsLikesResults"
    /\ op.again
    /\ err = Nil
    /\ DOMAIN inventory[1].commentsLikes = {"c1", "c2"}
    /\ Totals(1)["c1"] = <<1, 1>>
    /\ Totals(1)["c2"] = <<1, 0>>

\* The users whose latest like among ls has the action a: the latest by
\* timestamp, the later in ls among likes of equal timestamps.
UsersWhoseLatestIs(ls, a) ==
    {ls[i].PublicKey : i \in
        {i \in DOMAIN ls :
            /\ ls[i].Action = a
            /\ \A j \in DOMAIN ls :
                  ls[j].PublicKey = ls[i].PublicKey
                      => \/ ls[j].Timestamp < ls[i].Timestamp
                         \/ (ls[j].Timestamp = ls[i].Timestamp /\ j <= i)}}

\* The sequences that hold the likes ls in another ingestion order.
IngestionOrders(ls) ==
    {[i \in DOMAIN ls |-> ls[f[i]]] : f \in Orders(DOMAIN ls)}

\* The totals the tally gives the comment c of token t when its likes are ls.
TallyOf(t, c, ls) ==
    LET b == [Backend EXCEPT !.inventory[t].commentsLikes[c] = ls]
        ids == CHOOSE f \in Orders(DOMAIN b.inventory[t].commentsLikes) : TRUE
        m == _processCommentsLikesResults(b, t, ids).b.commentMaps[inventory[t].comments]
    IN  <<m[c].upVotes, m[c].downVotes>>

\* No user has two likes of different actions and one timestamp among ls.
NoOpposedTies(ls) ==
    \A i, j \in DOMAIN ls :
        (ls[i].PublicKey = ls[j].PublicKey /\ ls[i].Timestamp = ls[j].Timestamp)
            => ls[i].Action = ls[j].Action

-----------------------------------------------------------------------------
(* The metadata loaders called on a token of the cache and on one that is  *)
(* not in it                                                                *)

\* The longest Metadata of a record of these calls.
MaxStreams == 2

\* The state after construction and the calls that made the backend b.
InitAt(b) ==
    /\ inventory = b.inventory
    /\ numOfInvalid = b.numOfInvalid
    /\ numOfCensored = b.numOfCensored
    /\ numOfUnvetted = b.numOfUnvetted
    /\ numOfUnvettedChanges = b.numOfUnvettedChanges
    /\ numOfPublic = b.numOfPublic
    /\ numOfAbandoned = b.numOfAbandoned
    /\ numOfPropsByUserID = b.numOfPropsByUserID
    /\ commentMaps = b.commentMaps
    /\ op = NoOp
    /\ err = Nil
    /\ got = NoRecord
    /\ pr = NoRequest
    /\ proposals = <<>>
    /\ ps = NoStats
    /\ mu = Unlocked
    /\ proc = [p \in Threads |-> Idle]

\* The status of the token t, "none" when it is not in the cache.
StatusOf(t) ==
    IF t \in DOMAIN inventory THEN inventory[t].record.Status ELSE "none"

\* loadRecordMetadata(v): it returns nothing, err is Nil when it returns.
CallLoadRecordMetadata(v) ==
    LET r == loadRecordMetadata(Backend, v)
        t == v.CensorshipRecord.Token
    IN
    /\ \A k \in DOMAIN r.b.inventory : Len(r.b.inventory[k].changes) <= MaxChanges
    /\ Store(r.b)
    /\ err' = r.err
    /\ op' = [name |-> "loadRecordMetadata", token |-> t, old |-> StatusOf(t), v |-> v]
    /\ UNCHANGED <<mu, proc>>
    /\ UNCHANGED <<got, pr, proposals, ps>>

\* One of the five loaders, named by the id of its stream, called on m.Payload.
CallLoader(token, m) ==
    LET r == loadStream(Backend, token, m) IN
    /\ m.ID \in {"general", "changes", "authorizevote", "votebits", "votesnapshot"}
    /\ \A k \in DOMAIN r.b.inventory : Len(r.b.inventory[k].changes) <= MaxChanges
    /\ Store(r.b)
    /\ err' = r.err
    /\ op' = [name |-> "load", token |-> token, old |-> StatusOf(token), m |-> m]
    /\ UNCHANGED <<mu, proc>>
    /\ UNCHANGED <<got, pr, proposals, ps>>

\* The cache of these calls: the token 1 is in it, the token 2 is not.
MetaBackend ==
    _newInventoryRecord(EmptyBackend, Record(1, "public", 1, <<General("pk1")>>)).b

InitMeta == InitAt(MetaBackend)

MetaTokens == {1, 2}

\* Streams of every id the switch knows, one of an id it does not know,
\* one whose payload does not decode and one whose payload is empty.
MetaStreams ==
    {General("pk2"),
     Stream("changes", <<Doc("change")>>),
     Stream("authorizevote", <<Doc("avr")>>),
     Stream("votebits", <<Doc("bits")>>),
     Stream("votesnapshot", <<Doc("svr")>>),
     Stream("unknown", <<Doc("x")>>),
     Stream("general", <<BadDoc>>),
     Stream("authorizevote", <<>>)}

MetaStreamSeqs == UNION {[1..n -> MetaStreams] : n \in 0..MaxStreams}

\* The loaders are called any number of times, then the metadata of one
\* record is loaded.
NextMeta ==
    \/ /\ op.name # "loadRecordMetadata"
       /\ \E t \in MetaTokens, ms \in MetaStreamSeqs :
             CallLoadRecordMetadata(Record(t, "public", 1, ms))
    \/ /\ op.name # "loadRecordMetadata"
       /\ \E t \in MetaTokens, m \in MetaStreams : CallLoader(t, m)

SpecMeta == InitMeta /\ [][NextMeta]_vars

\* C16: loadRecordMetadata or a loader called for a token that has no entry
\* in the cache ends in an error that it returns, not in a panic and not
\* in success, and makes no entry for the token.
C16_MissingTokenIsAnError ==
    (op.name \in {"loadRecordMetadata", "load"} /\ op.old = "none")
        => /\ err \notin {Nil, Panic}
           /\ op.token \notin DOMAIN inventory

\* A stream the switch of loadRecordMetadata knows and whose payload is
\* one or more well-formed documents.
GoodStream(m) ==
    /\ m.ID \in {"general", "changes", "authorizevote", "votebits", "votesnapshot"}
    /\ m.Payload # <<>>
    /\ \A i \in DOMAIN m.Payload : m.Payload[i].ok

\* The first document of the last good stream of the id among ms, old when
\* there is none.
LastGood(ms, id, old) ==
    LET S == {i \in DOMAIN ms : ms[i].ID = id /\ GoodStream(ms[i])} IN
    IF S = {} THEN old
    ELSE Head(ms[CHOOSE i \in S : \A j \in S : j <= i].Payload).v

\* The documents of the good change-history streams among ms, in order.
RECURSIVE GoodChanges(_)
GoodChanges(ms) ==
    IF ms = <<>> THEN <<>>
    ELSE (IF Head(ms).ID = "changes" /\ GoodStream(Head(ms))
          THEN [i \in DOMAIN Head(ms).Payload |-> Head(ms).Payload[i].v]
          ELSE <<>>) \o GoodChanges(Tail(ms))

\* C20: loadRecordMetadata of a record of a token of the cache returns, and
\* every field of the entry is what the good streams of the record make
\* it, the streams of unknown id, of undecodable payload and of empty
\* payload left out: the field of a stream id holds the value of the last
\* good stream of that id, changes has the values of the good
\* change-history streams appended in order.
C20_StreamsAreIndependent ==
    [][(op'.name = "loadRecordMetadata" /\ op'.old # "none")
          => LET t == op'.token
                 ms == op'.v.Metadata
                 e == inventory[t]
             IN
             /\ err' = Nil
             /\ inventory' = [inventory EXCEPT ![t] =
                   [e EXCEPT
                      !.proposalMD =
                          [PublicKey |-> LastGood(ms, "general", e.proposalMD.PublicKey)],
                      !.voteAuthorization = LastGood(ms, "authorizevote", @),
                      !.votebits = LastGood(ms, "votebits", @),
                      !.voting = LastGood(ms, "votesnapshot", @),
                      !.changes = @ \o GoodChanges(ms)]]]_vars

\* A vote authorization loaded after a general stream that does not decode.
C20_Witness ==
    /\ op.name = "loadRecordMetadata"
    /\ op.old # "none"
    /\ op.v.Metadata = <<Stream("general", <<BadDoc>>),
                         Stream("authorizevote", <<Doc("avr")>>)>>
    /\ inventory[op.token].voteAuthorization = "avr"
    /\ inventory[op.token].proposalMD.PublicKey = "pk1"

-----------------------------------------------------------------------------
(* The plugin calls and the proof of their replies *)

\* makeRequest failed: there is no reply.
FailedCall == [challenge |-> 1, err |-> "request", Response |-> 0, ok |-> FALSE, v |-> <<>>]

\* A verified reply whose payload does not decode.
UndecodableCall == [challenge |-> 1, err |-> Nil, Response |-> 1, ok |-> FALSE, v |-> <<>>]

\* The calls whose reply carries the payload v, and those that carry none.
CallsOf(V) ==
    {OkCall(v) : v \in V} \cup {BadProofCall(v) : v \in V}
        \cup {FailedCall, UndecodableCall}

\* Replies to getcomments: none, a new comment, another text of c1.
CommentPayloads ==
    {<<>>, <<Comment(1, "c3", "z")>>, <<Comment(1, "c1", "new")>>}

\* Replies to getcommentslikes.
LikePayloads ==
    {<<>>,
     <<LikeComment(1, "c1", "pk1", 1, 1)>>,
     <<LikeComment(1, "c1", "pk2", -1, 1), LikeComment(1, "c2", "pk1", 1, 1)>>}

NextProof ==
    \/ \E x \in CallsOf(CommentPayloads) : CallLoadComments(1, x)
    \/ \E x \in CallsOf(LikePayloads) : CallLoadCommentsLikes(1, x)

SpecProof == InitTally /\ [][NextProof]_vars

\* C17: loadComments or _loadCommentsLikes whose reply carries a response
\* that is no proof over the challenge of the call returns an error, and
\* the comments and the comment likes of the entry are what they were
\* before the call.
C17_UnverifiedReplyChangesNothing ==
    [][(/\ op'.name \in {"loadComments", "_loadCommentsLikes"}
        /\ op'.x.err = Nil
        /\ ~VerifyChallenge(op'.x.challenge, op'.x.Response))
          => /\ err' # Nil
             /\ op'.token \in DOMAIN inventory'
             /\ inventory'[op'.token].comments = inventory[op'.token].comments
             /\ commentMaps'[inventory'[op'.token].comments]
                   = commentMaps[inventory[op'.token].comments]
             /\ inventory'[op'.token].commentsLikes
                   = inventory[op'.token].commentsLikes]_vars

\* An unverified reply with likes met by an entry that has likes loaded.
C17_Witness ==
    /\ op.name = "_loadCommentsLikes"
    /\ op.x = BadProofCall(<<LikeComment(1, "c1", "pk1", 1, 1)>>)
    /\ err = "challenge"
    /\ DOMAIN inventory[1].commentsLikes = {"c1", "c2"}
    /\ DOMAIN commentMaps[inventory[1].comments] = {"c1", "c2", "c3"}

-----------------------------------------------------------------------------
(* The statistics of a user *)

\* One turn of the loop of userProposalStats: the proposal v counted in s.
CountProposal(s, v, userID) ==
    IF v.UserId # userID THEN s
    ELSE CASE v.Status = "PropStatusInvalid" ->
                  [s EXCEPT !.NumOfInvalid = @ + 1]
           [] v.Status = "PropStatusNotReviewed" ->
                  [s EXCEPT !.NumOfUnvetted = @ + 1]
           [] v.Status = "PropStatusUnreviewedChanges" ->
                  [s EXCEPT !.NumOfUnvettedChanges = @ + 1]
           [] v.Status = "PropStatusCensored" ->
                  [s EXCEPT !.NumOfCensored = @ + 1]
           [] v.Status = "PropStatusPublic" ->
                  [s EXCEPT !.NumOfPublic = @ + 1]
           [] v.Status = "PropStatusAbandoned" ->
                  [s EXCEPT !.NumOfAbandoned = @ + 1]
           [] OTHER -> s

\* The loop of userProposalStats over allProposals.
RECURSIVE CountProposals(_, _, _)
CountProposals(s, all, userID) ==
    IF all = <<>> THEN s
    ELSE CountProposals(CountProposal(s, Head(all), userID), Tail(all), userID)

\* allProposals is taken between b.RLock() and b.RUnlock(); order is the
\* order in which _getAllProposals visits the map.
userProposalStats(b, userID, order) ==
    CountProposals(NoStats, _getAllProposals(b, order), userID)

CallUserProposalStats(userID, order) ==
    /\ ps' = userProposalStats(Backend, userID, order)
    /\ err' = Nil
    /\ op' = [name |-> "userProposalStats", token |-> 0, old |-> "none",
              user |-> userID]
    /\ UNCHANGED <<mu, proc>>
    /\ UNCHANGED <<inventory, numOfInvalid, numOfCensored, numOfUnvetted,
                   numOfUnvettedChanges, numOfPublic, numOfAbandoned,
                   numOfPropsByUserID, commentMaps, got, pr, proposals>>

\* Records of every status; those of the odd tokens are of the user u1,
\* those of the even tokens of the user u2.
StatsRecords ==
    {Record(t, s, 1, <<General(IF t % 2 = 1 THEN "pk1" ELSE "pk2")>>) :
        t \in Tokens, s \in RecordStatuses}

NextStats ==
    \/ \E record \in StatsRecords : newInventoryRecord(record)
    \/ \E u \in Users, order \in Orders(DOMAIN inventory) :
          CallUserProposalStats(u, order)

SpecStats == Init /\ [][NextStats]_vars

\* The entries whose author's public key is one of the user u.
EntriesOf(u) ==
    {t \in DOMAIN inventory :
        /\ inventory[t].proposalMD.PublicKey \in DOMAIN userPubkeys
        /\ userPubkeys[inventory[t].proposalMD.PublicKey] = u}

\* The statistics ps by the names of the buckets.
Buckets(s) ==
    [invalid |-> s.NumOfInvalid, censored |-> s.NumOfCensored,
     unvetted |-> s.NumOfUnvetted, unvettedChanges |-> s.NumOfUnvettedChanges,
     public |-> s.NumOfPublic, abandoned |-> s.NumOfAbandoned]

\* C18: userProposalStats(u) counts every entry of the user u in the bucket
\* the global counters count its status in: every bucket of the result is
\* the number of the entries of u whose status maps to it, and the
\* buckets sum to the number of the entries of u.
C18_UserStatsClassifyEveryEntry ==
    op.name = "userProposalStats"
        => LET mine == EntriesOf(op.user)
               s == Buckets(ps)
           IN
           /\ \A k \in DOMAIN s :
                 s[k] = Cardinality({t \in mine :
                                        BucketOf(inventory[t].record.Status) = k})
           /\ s.invalid + s.censored + s.unvetted + s.unvettedChanges
                 + s.public + s.abandoned = Cardinality(mine)

-----------------------------------------------------------------------------
(* Inserts and updates step by step, next to a reader of the counters *)

\* The call of the thread p: the function and the token of its record.
Calling(p, name, record) ==
    op' = [name |-> name, token |-> record.CensorshipRecord.Token,
           old |-> StatusOf(record.CensorshipRecord.Token), by |-> p]

\* The insert that does not lock.
NewWithoutLock(p, record) ==
    /\ proc[p] = Idle
    /\ Goto(p, [pc |-> "new114", record |-> record])
    /\ Calling(p, "newInventoryRecord", record)
    /\ UNCHANGED <<bvars, mu, err, got, pr, proposals, ps>>

\* newInventoryRecord: b.Lock()
NewLock(p, record) ==
    /\ proc[p] = Idle
    /\ Lock(p)
    /\ Goto(p, [pc |-> "new114", record |-> record])
    /\ Calling(p, "newInventoryRecord", record)
    /\ UNCHANGED <<bvars, err, got, pr, proposals, ps>>

\* _newInventoryRecord: the duplicate check and the new entry
NewPut(p) ==
    /\ proc[p].pc = "new114"
    /\ LET record == proc[p].record
           t == record.CensorshipRecord.Token
           addr == NewAddress(Backend, t)
       IN  IF t \in DOMAIN inventory
           THEN Return(p, ErrDuplicate) /\ UNCHANGED bvars
           ELSE /\ Store(PutRecord(MakeMap(Backend, addr), t, NewEntry(record, addr)))
                /\ Goto(p, [proc[p] EXCEPT !.pc = "new124"])
                /\ UNCHANGED <<mu, err>>
    /\ UNCHANGED <<op, got, pr, proposals, ps>>

\* _newInventoryRecord: b.loadRecordMetadata(record)
NewLoadMetadata(p) ==
    /\ proc[p].pc = "new124"
    /\ Store(loadRecordMetadata(Backend, proc[p].record).b)
    /\ Goto(p, [proc[p] EXCEPT !.pc = "new127"])
    /\ UNCHANGED <<mu, op, err, got, pr, proposals, ps>>

\* _newInventoryRecord: b._updateInventoryCountOfPropStatus(record.Status, nil)
NewCount(p) ==
    /\ proc[p].pc = "new127"
    /\ Store(_updateInventoryCountOfPropStatus(Backend, proc[p].record.Status, "none"))
    /\ Goto(p, [proc[p] EXCEPT !.pc = "new130"])
    /\ UNCHANGED <<mu, op, err, got, pr, proposals, ps>>

\* _newInventoryRecord: b._updateCountOfUserProposals(t), the return and
\* the deferred b.Unlock()
NewCountUser(p) ==
    /\ proc[p].pc = "new130"
    /\ LET r == _updateCountOfUserProposals(
                    Backend, proc[p].record.CensorshipRecord.Token)
       IN  Store(r.b) /\ Return(p, r.err)
    /\ UNCHANGED <<op, got, pr, proposals, ps>>

\* The caller of _updateInventoryRecord locks and calls it.
UpdateLock(p, record) ==
    /\ proc[p] = Idle
    /\ Lock(p)
    /\ Goto(p, [pc |-> "upd151", record |-> record])
    /\ Calling(p, "_updateInventoryRecord", record)
    /\ UNCHANGED <<bvars, err, got, pr, proposals, ps>>

\* _updateInventoryRecord: ir, ok := b.inventory[token]
UpdateFind(p) ==
    /\ proc[p].pc = "upd151"
    /\ IF proc[p].record.CensorshipRecord.Token \notin DOMAIN inventory
       THEN Return(p, ErrNotFound)
       ELSE Goto(p, [proc[p] EXCEPT !.pc = "upd157"]) /\ UNCHANGED <<mu, err>>
    /\ UNCHANGED <<bvars, op, got, pr, proposals, ps>>

\* _updateInventoryRecord: b._updateInventoryCountOfPropStatus(record.Status,
\* &ir.record.Status)
UpdateCount(p) ==
    /\ proc[p].pc = "upd157"
    /\ LET record == proc[p].record
           ir == inventory[record.CensorshipRecord.Token]
       IN  Store(_updateInventoryCountOfPropStatus(
                     Backend, record.Status, ir.record.Status))
    /\ Goto(p, [proc[p] EXCEPT !.pc = "upd160"])
    /\ UNCHANGED <<mu, op, err, got, pr, proposals, ps>>

\* _updateInventoryRecord: ir.record = record; b.inventory[token] = ir
UpdateReplace(p) ==
    /\ proc[p].pc = "upd160"
    /\ LET record == proc[p].record
           t == record.CensorshipRecord.Token
       IN  Store(PutRecord(Backend, t, [inventory[t] EXCEPT !.record = record]))
    /\ Goto(p, [proc[p] EXCEPT !.pc = "upd162"])
    /\ UNCHANGED <<mu, op, err, got, pr, proposals, ps>>

\* _updateInventoryRecord: b.loadRecordMetadata(record), return nil, and
\* the caller unlocks.
UpdateLoadMetadata(p) ==
    /\ proc[p].pc = "upd162"
    /\ Store(loadRecordMetadata(Backend, proc[p].record).b)
    /\ Return(p, Nil)
    /\ UNCHANGED <<op, got, pr, proposals, ps>>

Writers == {"w1", "w2"}

\* The records of the concurrent calls: a status of the default bucket
\* and two of buckets of their own.
ConcRecords ==
    {Record(t, s, 1, <<General("pk1")>>) :
        t \in Tokens, s \in {"notfound", "notreviewed", "public"}}

NextConc ==
    \/ \E p \in Writers, record \in ConcRecords : NewLock(p, record)
    \/ \E p \in Writers : NewPut(p)
    \/ \E p \in Writers : NewLoadMetadata(p)
    \/ \E p \in Writers : NewCount(p)
    \/ \E p \in Writers : NewCountUser(p)
    \/ \E p \in Writers, record \in ConcRecords : UpdateLock(p, record)
    \/ \E p \in Writers : UpdateFind(p)
    \/ \E p \in Writers : UpdateCount(p)
    \/ \E p \in Writers : UpdateReplace(p)
    \/ \E p \in Writers : UpdateLoadMetadata(p)
    \/ StatsRLock("rd")
    \/ StatsReturn("rd")

SpecConc == Init /\ [][NextConc]_vars

\* C19: whenever a reader holds the mutex for reading, every status counter
\* is the number of the entries of the cache whose record status maps to
\* its bucket.
C19_ReadersSeeCountersOfEntries ==
    mu.readers # {}
        => \A k \in DOMAIN Counters :
              Counters[k] = Cardinality({t \in DOMAIN inventory :
                                BucketOf(inventory[t].record.Status) = k})

\* A reader holds the mutex after an update has moved an entry to public,
\* next to another entry, while a writer is in no call.
C19_Witness ==
    /\ mu.readers = {"rd"}
    /\ proc["rd"].pc = "stats73"
    /\ op.name = "_updateInventoryRecord"
    /\ op.old = "notreviewed"
    /\ err = Nil
    /\ DOMAIN inventory = Tokens
    /\ inventory[op.token].record.Status = "public"
    /\ numOfPublic = 1
    /\ numOfUnvetted = 0

-----------------------------------------------------------------------------
(* Streams whose decoding fails after values that decode *)

\* Streams that decode, streams whose first value does not, and
\* change-history streams whose second value does not.
SkipStreams ==
    {General("pk2"),
     Stream("general", <<BadDoc>>),
     Stream("authorizevote", <<Doc("avr")>>),
     Stream("authorizevote", <<BadDoc>>),
     Stream("changes", <<Doc("a")>>),
     Stream("changes", <<BadDoc>>),
     Stream("changes", <<Doc("b"), BadDoc>>)}

SkipStreamSeqs == UNION {[1..n -> SkipStreams] : n \in 1..MaxStreams}

\* The loaders are called any number of times, then the metadata of one
\* record is loaded.
NextSkip ==
    \/ /\ op.name # "loadRecordMetadata"
       /\ \E ms \in SkipStreamSeqs : CallLoadRecordMetadata(Record(1, "public", 1, ms))
    \/ /\ op.name # "loadRecordMetadata"
       /\ \E m \in SkipStreams : CallLoader(1, m)

SpecSkip == InitMeta /\ [][NextSkip]_vars

\* The decoding of the stream m fails: a loader of one value reads the
\* first value of the payload, loadChanges reads them all.
DecodingFails(m) ==
    IF m.ID = "changes"
    THEN \E i \in DOMAIN m.Payload : ~m.Payload[i].ok
    ELSE m.Payload # <<>> /\ ~Head(m.Payload).ok

\* C21: a loader called on a stream whose decoding fails returns the error
\* and leaves the entry of the token as it was; a change-history stream
\* whose second value is malformed appends nothing to changes.
C21_FailedStreamIsSkipped ==
    [][(op'.name = "load" /\ op'.old # "none" /\ DecodingFails(op'.m))
          => /\ err' = ErrDecode
             /\ inventory'[op'.token] = inventory[op'.token]]_vars

-----------------------------------------------------------------------------
(* The history of the status changes of a record *)

\* The MDStreamChanges value of the change made at the time ts.
Change(ts) == Doc([Timestamp |-> ts])

\* The change-history stream of a record that has seen n changes, in
\* chronological order.
History(n) == Stream("changes", [i \in 1..n |-> Change(i)])

\* The records of a token as the store returns them over time.
HistoryRecords ==
    {Record(t, "public", 1, <<General("pk1"), History(n)>>) :
        t \in Tokens, n \in 0..MaxTimestamp}

NextHistory ==
    \/ \E record \in HistoryRecords : newInventoryRecord(record)
    \/ \E record \in HistoryRecords : updateInventoryRecord(record)

SpecHistory == Init /\ [][NextHistory]_vars

\* C22: the changes of every entry are in non-decreasing order of their
\* timestamps and hold every state change at most once, whatever inserts
\* and updates with chronological change-history streams were made.
C22_ChangesChronologicalAndUnique ==
    \A t \in DOMAIN inventory :
        LET cs == inventory[t].changes IN
        \A i, j \in DOMAIN cs :
            i < j => /\ cs[i].Timestamp <= cs[j].Timestamp
                     /\ cs[i] # cs[j]

\* C23: an insert that returns an error, the duplicate token error or that
\* of an author's public key no user has, leaves the cache with the
\* tokens it had, and the status counters and the per-user counts as
\* they were.
C23_FailedInsertChangesNothing ==
    [][(op'.name = "newInventoryRecord" /\ err' # Nil)
          => /\ DOMAIN inventory' = DOMAIN inventory
             /\ Counters' = Counters
             /\ numOfPropsByUserID' = numOfPropsByUserID]_vars

-----------------------------------------------------------------------------
(* Paging forward through a populated cache *)

\* getProposals as a page of a walk: pages has the pages so far, done
\* tells that this page is shorter than a full one.
CallGetProposalsPage(request, order, pages) ==
    LET page == getProposals(Backend, request, order) IN
    /\ pr' = request
    /\ proposals' = page
    /\ err' = Nil
    /\ op' = [name |-> "page", token |-> 0, old |-> "none",
              pages |-> pages \o page,
              done |-> Len(page) < ProposalListPageSize]
    /\ UNCHANGED <<mu, proc>>
    /\ UNCHANGED <<inventory, numOfInvalid, numOfCensored, numOfUnvetted,
                   numOfUnvettedChanges, numOfPublic, numOfAbandoned,
                   numOfPropsByUserID, commentMaps, got, ps>>

\* The first page: the request has no cursor.
FirstPage(request, order) ==
    /\ op = NoOp
    /\ request.After = 0
    /\ request.Before = 0
    /\ CallGetProposalsPage(request, order, <<>>)

\* The next page: after is the token of the last proposal of the page before.
NextPage(order) ==
    /\ op.name = "page"
    /\ ~op.done
    /\ CallGetProposalsPage(
          [pr EXCEPT !.After = proposals[Len(proposals)].CensorshipRecord.Token],
          order, op.pages)

NextPages ==
    \/ \E order \in Orders(DOMAIN inventory) :
          \E request \in Requests : FirstPage(request, order)
    \/ \E order \in Orders(DOMAIN inventory) : NextPage(order)

SpecPages == InitList /\ [][NextPages]_vars

\* C24: the pages of a walk forward that has met a page shorter than a full
\* one are, one after the other, the wanted proposals newest first, each
\* of them once.
C24_PagingForwardIsComplete ==
    (op.name = "page" /\ op.done) => op.pages = NewestFirst

\* A walk of more than one full page over the proposals of the user u1, in
\* a cache that holds proposals of others as well.
C24_Witness ==
    /\ op.name = "page"
    /\ op.done
    /\ pr.UserId = "u1"
    /\ Len(op.pages) > ProposalListPageSize
    /\ Cardinality(DOMAIN inventory) > Len(op.pages)
    /\ op.pages = NewestFirst

=============================================================================
